---- MODULE Spec2Model ----
(***************************************************************************)
(* A model of the interval arithmetic and chord-quality recognition of    *)
(* schoen: the Interval value type with its interning cache                *)
(* (src/src/Interval.ts) and the ChordQuality registry                     *)
(* (src/src/ChordQuality.ts).                                              *)
(*                                                                         *)
(* Strings are TLA+ strings, read character by character with SubSeq.      *)
(* An object is a record of its (immutable) fields plus an object number   *)
(* "oid" that tells apart two objects with equal fields: object identity   *)
(* (JavaScript ===) is equality of these records.                          *)
(***************************************************************************)
EXTENDS Integers, Sequences, FiniteSets, TLC

VARIABLES
    bySemitone,   \* Interval.bySemitone: natural semitones -> (accidentals -> Interval)
    held,         \* the Interval objects handed out so far (Intervals.*, results)
    loaded,       \* evaluation of ChordQuality.ts: "no", "ready" or "failed"
    chordMap,     \* ChordQuality.chordMap: key -> ChordQuality
    qualities,    \* the ChordQuality objects a caller holds
    pitchClassInstances,  \* PitchClass.instances: pitch class number -> PitchClass
    ret           \* the last call: [op, arg, res]

vars ==
    <<bySemitone, held, loaded, chordMap, qualities, pitchClassInstances, ret>>

(***************************************************************************)
(* Bounds of the model.                                                    *)
(***************************************************************************)
\* Interval objects created after the thirteen of Intervals
MaxNew == 2
\* ChordQuality objects a caller holds at once
MaxQualities == 2

(***************************************************************************)
(* F applied to the value of v, with v evaluated once (a sequencing `let`). *)
(***************************************************************************)
Bind(v, F(_)) == CHOOSE r \in {F(x) : x \in {v}} : TRUE

(***************************************************************************)
(* Strings.                                                                *)
(***************************************************************************)
Char(s, i) == SubSeq(s, i, i)

DigitChars == <<"0", "1", "2", "3", "4", "5", "6", "7", "8", "9">>

IsDigit(c) == \E d \in 1..10 : DigitChars[d] = c

DigitValue(c) == (CHOOSE d \in 1..10 : DigitChars[d] = c) - 1

\* JavaScript \s, as far as the inputs of the model go
IsSpace(c) == c \in {" ", "\t"}

\* Number.prototype.toString of an integer
RECURSIVE NatToString(_)
NatToString(n) ==
    IF n < 10 THEN DigitChars[n + 1]
    ELSE NatToString(n \div 10) \o DigitChars[(n % 10) + 1]

NumberToString(n) == IF n < 0 THEN "-" \o NatToString(-n) ELSE NatToString(n)

\* unary plus on a string of digits
RECURSIVE ToNumber(_)
ToNumber(s) ==
    IF Len(s) = 0 THEN 0
    ELSE 10 * ToNumber(SubSeq(s, 1, Len(s) - 1)) + DigitValue(Char(s, Len(s)))

UpperCase == "ABCDEFGHIJKLMNOPQRSTUVWXYZ"
LowerCase == "abcdefghijklmnopqrstuvwxyz"

LowerChar(c) ==
    IF \E i \in 1..26 : Char(UpperCase, i) = c
    THEN Char(LowerCase, CHOOSE i \in 1..26 : Char(UpperCase, i) = c)
    ELSE c

RECURSIVE ToLowerCase(_)
ToLowerCase(s) ==
    IF Len(s) = 0 THEN ""
    ELSE LowerChar(Char(s, 1)) \o ToLowerCase(SubSeq(s, 2, Len(s)))

\* UTF-16 code unit order among the characters of a number's string
CharCode(c) == IF c = "-" THEN 45 ELSE 48 + DigitValue(c)

\* Array.prototype.indexOf, 0-based, -1 when absent
IndexOf(names, name) ==
    IF \E i \in 1..Len(names) : names[i] = name
    THEN (CHOOSE i \in 1..Len(names) :
              names[i] = name /\ \A j \in 1..(i - 1) : names[j] # name) - 1
    ELSE -1

(***************************************************************************)
(* Interval.ts: the name tables.                                           *)
(***************************************************************************)
ShortIntervalNames ==
    <<"P1", "m2", "M2", "m3", "M3", "P4", "TT", "P5", "m6", "M6", "m7", "M7", "P8">>

LongIntervalNames ==
    <<"Unison", "Minor 2nd", "Major 2nd", "Minor 3rd", "Major 3rd",
      "Perfect 4th", "Tritone", "Perfect 5th", "Minor 6th", "Major 6th",
      "Minor 7th", "Major 7th", "Octave">>

\* name.match(/(.)(\d)/): the first position with any character then a digit
QualityDigitAt(name) ==
    {i \in 1..(Len(name) - 1) : IsDigit(Char(name, i + 1))}

\* The table that the forEach over ShortIntervalNames fills for one letter:
\* ar[num] = semitones; a later name overwrites an earlier one.
SemitoneTable(letter) ==
    LET hits == {s \in 1..Len(ShortIntervalNames) :
                    LET name == ShortIntervalNames[s] IN
                    /\ QualityDigitAt(name) # {}
                    /\ LET i == CHOOSE i \in QualityDigitAt(name) :
                                    \A j \in QualityDigitAt(name) : i <= j
                       IN Char(name, i) = letter}
        NumOf(s) == LET name == ShortIntervalNames[s]
                        i == CHOOSE i \in QualityDigitAt(name) :
                                    \A j \in QualityDigitAt(name) : i <= j
                    IN DigitValue(Char(name, i + 1))
    IN [num \in {NumOf(s) : s \in hits} |->
            (CHOOSE s \in hits : NumOf(s) = num
                                 /\ \A t \in hits : NumOf(t) = num => t <= s) - 1]

\* the major table filled from the names of the minor intervals
majorSemitonesFromMinor == SemitoneTable("m")

majorSemitones == SemitoneTable("M")
minorSemitones == SemitoneTable("m")
perfectSemitones == SemitoneTable("P")

\* lowerCaseQualities, keyed by the lower-cased capture
lowerCaseQualities ==
    [q \in {"a", "augmented", "d", "diminished"} |->
        IF q \in {"a", "augmented"} THEN 1 ELSE -1]

\* The tail \s*(\d+)$ of both patterns: the digits, or "" when no match
TrailingNumber(rest) ==
    LET cuts == {k \in 0..(Len(rest) - 1) :
                    /\ \A i \in 1..k : IsSpace(Char(rest, i))
                    /\ \A i \in (k + 1)..Len(rest) : IsDigit(Char(rest, i))}
    IN IF cuts = {} THEN ""
       ELSE SubSeq(rest, (CHOOSE k \in cuts : TRUE) + 1, Len(rest))

\* name.match(/^([Ad])\s*(\d+)$/) || name.match(/^(augmented|diminished)\s*(\d+)$/i)
\* as [matched, quality (m[1]), digits (m[2])]
MatchAccidentalName(name) ==
    LET noMatch == [matched |-> FALSE, quality |-> "", digits |-> ""]
        Prefixed(n) ==
            LET digits == TrailingNumber(SubSeq(name, n + 1, Len(name)))
            IN IF digits = "" THEN noMatch
               ELSE [matched |-> TRUE, quality |-> SubSeq(name, 1, n),
                     digits |-> digits]
        short == IF Len(name) >= 1 /\ Char(name, 1) \in {"A", "d"}
                 THEN Prefixed(1) ELSE noMatch
        WordAt(w) == Len(name) >= Len(w)
                     /\ ToLowerCase(SubSeq(name, 1, Len(w))) = w
        long == IF WordAt("augmented") THEN Prefixed(9)
                ELSE IF WordAt("diminished") THEN Prefixed(10)
                ELSE noMatch
    IN IF short.matched THEN short ELSE long

\* Interval.fromString up to the construction: the (naturalSemitones,
\* accidentals) it builds, or the Error it throws
ParseIntervalName(name) ==
    LET short == IndexOf(ShortIntervalNames, name)
        long == IndexOf(LongIntervalNames, name)
        m == MatchAccidentalName(name)
        num == IF m.matched THEN ToNumber(m.digits) ELSE -1
        Found(n, a) == [ok |-> TRUE, semitones |-> n, accidentals |-> a]
    IN IF short >= 0 THEN Found(short, 0)
       ELSE IF long >= 0 THEN Found(long, 0)
       ELSE IF ~(1 <= num /\ num <= 8)
            THEN [ok |-> FALSE, error |-> "No interval named"]
       ELSE LET accidentals == lowerCaseQualities[ToLowerCase(m.quality)]
                table == IF accidentals < 0 THEN minorSemitones ELSE majorSemitones
                \* table[num] || perfectSemitones[num]: 0 and undefined are falsy
                semitones == IF num \in DOMAIN table /\ table[num] # 0
                             THEN table[num] ELSE perfectSemitones[num]
            IN Found(semitones, accidentals)

(***************************************************************************)
(* Interval.ts: the class.                                                 *)
(***************************************************************************)
IntervalObject(n, a, k) == [naturalSemitones |-> n, accidentals |-> a, oid |-> k]

SamePair(x, y) ==
    /\ x.naturalSemitones = y.naturalSemitones
    /\ x.accidentals = y.accidentals

\* get semitones()
Semitones(x) == x.naturalSemitones + x.accidentals

\* get number(): [ok, value] with value 0 for null, or the TypeError of
\* undefined.match when the name table has no entry
Number(x) ==
    IF x.naturalSemitones \notin 0..(Len(ShortIntervalNames) - 1)
    THEN [ok |-> FALSE, error |-> "TypeError"]
    ELSE LET name == ShortIntervalNames[x.naturalSemitones + 1]
             starts == {i \in 1..Len(name) : IsDigit(Char(name, i))}
         IN IF starts = {} THEN [ok |-> TRUE, value |-> 0]
            ELSE LET i == CHOOSE i \in starts : \A j \in starts : i <= j
                     j == CHOOSE j \in i..Len(name) :
                              /\ \A k \in i..j : IsDigit(Char(name, k))
                              /\ (j = Len(name) \/ ~IsDigit(Char(name, j + 1)))
                 IN [ok |-> TRUE, value |-> ToNumber(SubSeq(name, i, j))]

EmptyMap == [k \in {} |-> 0]

\* interned(semitones, accidentals, instance) with instance = this, as the
\* constructor calls it: the object it returns and the cache afterwards
internedNoLookup(cache, semitones, accidentals, instance) ==
    LET withDict == IF semitones \in DOMAIN cache THEN cache
                    ELSE cache @@ (semitones :> EmptyMap)
    IN [result |-> instance,
        cache |-> [withDict EXCEPT ![semitones] =
                       (accidentals :> instance) @@ withDict[semitones]]]

interned(cache, semitones, accidentals, instance) ==
    LET withDict == IF semitones \in DOMAIN cache THEN cache
                    ELSE cache @@ (semitones :> EmptyMap)
        dict == withDict[semitones]
    IN IF accidentals \in DOMAIN dict
       THEN [result |-> dict[accidentals], cache |-> withDict]
       ELSE [result |-> instance,
             cache |-> [withDict EXCEPT ![semitones] =
                            dict @@ (accidentals :> instance)]]

\* new Interval(naturalSemitones, accidentals) in the state st = [cache, held]:
\* a fresh object this, then what interned returns in its place
Construct(st, n, a) ==
    LET this == IntervalObject(n, a,
                    Cardinality({x \in st.held : x.naturalSemitones = n
                                                 /\ x.accidentals = a}))
    IN Bind(interned(st.cache, n, a, this),
            LAMBDA r : [result |-> r.result, cache |-> r.cache,
                        held |-> st.held \cup {r.result}])

\* Interval.fromSemitones(semitones, accidentals = 0)
fromSemitones(st, semitones, accidentals) == Construct(st, semitones, accidentals)

\* asInterval(n) for a number n
asIntervalOfNumber(st, n) == Construct(st, n, 0)

\* get inverse(), with the accidentals left out of the result
inverseDroppingAccidentals(st, x) ==
    fromSemitones(st, 12 - x.naturalSemitones, 0)

\* get inverse(), augment(), diminish(), natural(); add(other)
inverse(st, x) == fromSemitones(st, 12 - x.naturalSemitones, -x.accidentals)
augment(st, x) == fromSemitones(st, x.naturalSemitones, x.accidentals + 1)
diminish(st, x) == fromSemitones(st, x.naturalSemitones, x.accidentals - 1)
natural(st, x) == fromSemitones(st, x.naturalSemitones, 0)
add(st, x, other) ==
    fromSemitones(st, x.naturalSemitones + other.naturalSemitones, 0)

\* normalizePitchClass of ./notation: the pitch class number in 0..11 that
\* differs from n by a multiple of 12
normalizePitchClass(n) == n % 12

\* A number, a PitchClass and a Pitch as operands: typeof and instanceof read
\* the kind
NumberOperand(n) == [kind |-> "number", value |-> n]
PitchOperand(midiNumber) == [kind |-> "Pitch", midiNumber |-> midiNumber]

\* Interval.between(a, b) without the final range check
betweenWithoutRangeCheck(st, a, b) ==
    IF a.kind = "Pitch" /\ b.kind = "Pitch"
    THEN [ok |-> TRUE,
          made |-> fromSemitones(st, b.midiNumber - a.midiNumber, 0)]
    ELSE IF a.kind = "PitchClass" /\ b.kind = "PitchClass"
    THEN [ok |-> TRUE,
          made |-> fromSemitones(st, normalizePitchClass(b.semitones - a.semitones), 0)]
    ELSE IF a.kind = "number" /\ b.kind = "number"
    THEN [ok |-> TRUE, made |-> fromSemitones(st, b.value - a.value, 0)]
    ELSE [ok |-> FALSE, error |-> "Can't take the interval between"]

\* Interval.between(a, b): [ok, made] with made what the construction
\* returned, or the Error it throws
between(st, a, b) ==
    LET kinds == <<a.kind, b.kind>>
        difference ==
            IF kinds = <<"Pitch", "Pitch">> THEN b.midiNumber - a.midiNumber
            ELSE IF kinds = <<"PitchClass", "PitchClass">>
            THEN normalizePitchClass(b.semitones - a.semitones)
            ELSE b.value - a.value
    IN IF kinds \notin {<<"Pitch", "Pitch">>, <<"PitchClass", "PitchClass">>,
                        <<"number", "number">>}
       THEN [ok |-> FALSE, error |-> "Can't take the interval between"]
       ELSE LET semitones == IF ~(0 <= difference /\ difference < 12)
                             THEN normalizePitchClass(difference)
                             ELSE difference
            IN [ok |-> TRUE, made |-> fromSemitones(st, semitones, 0)]

\* The module-level Intervals: new Interval(semitones) for every short name
RECURSIVE LoadIntervals(_, _)
LoadIntervals(st, semitones) ==
    IF semitones >= Len(ShortIntervalNames) THEN st
    ELSE Bind(Construct(st, semitones, 0),
              LAMBDA c : LoadIntervals([cache |-> c.cache, held |-> c.held],
                                       semitones + 1))

IntervalsLoaded == LoadIntervals([cache |-> EmptyMap, held |-> {}], 0)

(***************************************************************************)
(* PitchClass.ts.  A PitchClass is a record of its field semitones, its    *)
(* class (kind) and an object number.                                      *)
(***************************************************************************)
PitchClassObject(n, k) == [kind |-> "PitchClass", semitones |-> n, oid |-> k]

\* PitchClassParser.normalize of ./internal/pitchClassParser
normalize(semitones) == semitones % 12

\* PitchClass.fromSemitones(semitones): the instance and the map afterwards.
\* The constructor is private and called only here: a new object is numbered
\* by the objects made before it.
pitchClassFromSemitones(map, semitones) ==
    LET n == normalize(semitones)
        instance == PitchClassObject(n, Cardinality(DOMAIN map))
    IN IF n \in DOMAIN map
       THEN [result |-> map[n], instances |-> map]
       ELSE [result |-> instance, instances |-> map @@ (n :> instance)]

\* add(other: Interval), with the interval taken downwards
pitchClassAddDownwards(map, pc, other) ==
    pitchClassFromSemitones(map, pc.semitones - Semitones(other))

\* add(other: Interval)
pitchClassAdd(map, pc, other) ==
    pitchClassFromSemitones(map, pc.semitones + Semitones(other))

\* PitchClass.all = _.times(12).map(PitchClass.fromSemitones)
RECURSIVE LoadPitchClasses(_, _)
LoadPitchClasses(map, n) ==
    IF n >= 12 THEN map
    ELSE LoadPitchClasses(pitchClassFromSemitones(map, n).instances, n + 1)

PitchClassesLoaded == LoadPitchClasses(EmptyMap, 0)

(***************************************************************************)
(* ChordQuality.ts: the class.  null is written Null: the constructor's    *)
(* `options.inversion || null` sends 0, null and a missing key to null     *)
(* alike, so a stored 0 and a stored null behave the same everywhere.      *)
(* A null or missing fullName is written "" (falsy like null in addChord). *)
(***************************************************************************)
Null == 0

rootIntervalNumberToInversion == [n \in {3, 5} |-> IF n = 3 THEN 1 ELSE 2]

\* A ChordQualityOptions literal; hasInversion tells whether the key is present
Options(name, fullName, abbrs, intervals, hasInversion, inversion) ==
    [name |-> name, fullName |-> fullName, abbrs |-> abbrs,
     intervals |-> intervals, hasInversion |-> hasInversion,
     inversion |-> inversion]

\* new ChordQuality(options), as object number k
ChordQualityObject(options, k) ==
    [name |-> options.name,
     fullName |-> options.fullName,
     abbrs |-> options.abbrs,
     intervals |-> options.intervals,
     inversion |-> IF options.hasInversion /\ options.inversion # Null
                   THEN options.inversion ELSE Null,
     options |-> options,
     oid |-> k]

\* the options literal of invert: { inversion, ...this.options }, in which a
\* key of this.options, spread last, replaces the inversion given
invertOptions(q, inversion) ==
    IF q.options.hasInversion THEN q.options
    ELSE [q.options EXCEPT !.hasInversion = TRUE, !.inversion = inversion]

\* invert(inversion), the new object numbered k
invert(q, inversion, k) == ChordQualityObject(invertOptions(q, inversion), k)

\* Array.prototype.join(',') of numbers
RECURSIVE Join(_)
Join(numbers) ==
    IF Len(numbers) = 0 THEN ""
    ELSE IF Len(numbers) = 1 THEN NumberToString(numbers[1])
    ELSE NumberToString(numbers[1]) \o "," \o Join(Tail(numbers))

\* s < t in UTF-16 code unit order, for the strings of numbers
RECURSIVE StringLess(_, _)
StringLess(s, t) ==
    IF Len(t) = 0 THEN FALSE
    ELSE IF Len(s) = 0 THEN TRUE
    ELSE IF CharCode(Char(s, 1)) # CharCode(Char(t, 1))
         THEN CharCode(Char(s, 1)) < CharCode(Char(t, 1))
    ELSE StringLess(SubSeq(s, 2, Len(s)), SubSeq(t, 2, Len(t)))

\* numbers.sort() with no comparator: the order of the elements' strings
RECURSIVE InsertSorted(_, _)
InsertSorted(sorted, n) ==
    IF Len(sorted) = 0 THEN <<n>>
    ELSE IF StringLess(NumberToString(n), NumberToString(sorted[1]))
         THEN <<n>> \o sorted
    ELSE <<sorted[1]>> \o InsertSorted(Tail(sorted), n)

RECURSIVE Sort(_)
Sort(numbers) ==
    IF Len(numbers) = 0 THEN <<>>
    ELSE InsertSorted(Sort(SubSeq(numbers, 1, Len(numbers) - 1)),
                      numbers[Len(numbers)])

SemitonesOf(intervals) == [i \in 1..Len(intervals) |-> Semitones(intervals[i])]

\* An item of fromIntervals is an Interval object or [number |-> n]
IsNumberItem(item) == "number" \in DOMAIN item

\* (_intervals).map(asInterval) in the state st: [intervals, cache, held]
RECURSIVE MapAsInterval(_, _)
MapAsInterval(st, items) ==
    IF Len(items) = 0
    THEN [intervals |-> <<>>, cache |-> st.cache, held |-> st.held]
    ELSE Bind(IF IsNumberItem(items[1])
              THEN asIntervalOfNumber(st, items[1].number)
              ELSE [result |-> items[1], cache |-> st.cache, held |-> st.held],
              LAMBDA c :
                Bind(MapAsInterval([cache |-> c.cache, held |-> c.held],
                                   Tail(items)),
                     LAMBDA rest :
                       [intervals |-> <<c.result>> \o rest.intervals,
                        cache |-> rest.cache, held |-> rest.held]))

\* the key fromIntervals looks up
LookupKey(intervals) == Join(Sort(SemitonesOf(intervals)))

\* ChordQuality.fromIntervals on converted intervals, with the registry map;
\* k numbers the object invert would create
fromIntervals(map, intervals, k) ==
    LET key == LookupKey(intervals) IN
    IF key \notin DOMAIN map
    THEN [ok |-> FALSE, error |-> "Couldn't find chord class"]
    ELSE IF Len(intervals) = 0 \/ ~Number(intervals[1]).ok
         THEN [ok |-> FALSE, error |-> "TypeError"]
    ELSE LET instance == map[key]
             number == Number(intervals[1]).value
         IN IF number \in DOMAIN rootIntervalNumberToInversion
            THEN [ok |-> TRUE,
                  value |-> invert(instance,
                                   rootIntervalNumberToInversion[number], k)]
            ELSE [ok |-> TRUE, value |-> instance]

\* ChordQuality.fromString
fromString(map, name) ==
    IF name \in DOMAIN map THEN [ok |-> TRUE, value |-> map[name]]
    ELSE [ok |-> FALSE, error |-> "is not a chord name"]

\* the keys addChord registers, in order
PitchKey(chordClass) == Join(SemitonesOf(chordClass.intervals))

RegisteredKeys(chordClass) ==
    <<chordClass.name, chordClass.fullName>> \o chordClass.abbrs
        \o <<PitchKey(chordClass)>>

\* ChordClassAccessor.addChord: chordMap.set(key, chordClass) for each truthy key
RECURSIVE SetKeys(_, _, _)
SetKeys(map, keys, chordClass) ==
    IF Len(keys) = 0 THEN map
    ELSE LET key == keys[1]
         IN Bind(IF key # ""
                 THEN [k \in DOMAIN map \cup {key} |->
                          IF k = key THEN chordClass ELSE map[k]]
                 ELSE map,
                 LAMBDA next : SetKeys(next, Tail(keys), chordClass))

addChord(map, chordClass) == SetKeys(map, RegisteredKeys(chordClass), chordClass)

(***************************************************************************)
(* ChordQuality.ts: the catalog and its evaluation when the module loads.  *)
(***************************************************************************)
\* at(root) for a root that is no string: new Chord(this, root)
chordAt(q, root) == [quality |-> q, root |-> root]

\* Chord.notes of ./Chord: the quality's intervals, each added to the root,
\* in the quality's order; [notes, instances]
RECURSIVE NotesFrom(_, _, _, _)
NotesFrom(map, chord, i, notes) ==
    IF i > Len(chord.quality.intervals)
    THEN [notes |-> notes, instances |-> map]
    ELSE Bind(pitchClassAdd(map, chord.root, chord.quality.intervals[i]),
              LAMBDA r : NotesFrom(r.instances, chord, i + 1,
                                   Append(notes, r.result)))

chordNotes(map, chord) == NotesFrom(map, chord, 1, <<>>)

Entry(name, abbrs, intervals) ==
    [name |-> name, abbrs |-> abbrs, intervals |-> intervals]

Catalog ==
    << Entry("Major", <<"", "M">>, "047"),
       Entry("Minor", <<"m">>, "037"),
       Entry("Augmented", <<"+", "aug">>, "048"),
       Entry("Diminished", <<"°", "dim">>, "036"),
       Entry("Sus2", <<"sus2">>, "027"),
       Entry("Sus4", <<"sus4">>, "057"),
       Entry("6th", <<"6", "M6", "M6", "maj6">>, "0479"),
       Entry("Minor 6th", <<"m6", "min6">>, "0379"),
       Entry("Dominant 7th", <<"7", "dom7">>, "047t"),
       Entry("Augmented 7th", <<"+7", "7aug">>, "048t"),
       Entry("Diminished 7th", <<"°7", "dim7">>, "0369"),
       Entry("Major 7th", <<"maj7", "M7">>, "047e"),
       Entry("Minor 7th", <<"min7", "m7">>, "037t"),
       Entry("Dominant 7b5", <<"7b5">>, "046t"),
       Entry("Minor 7th b5", <<"ø", "Ø", "m7b5">>, "036t"),
       Entry("Diminished Maj 7th", <<"°Maj7">>, "036e"),
       Entry("Minor-Major 7th", <<"min/maj7", "min(maj7)">>, "037e"),
       Entry("Major 9th", <<"M9">>, "P1 M3 P5 M7 M9"),
       Entry("Minor 9th", <<"m9">>, "P1 m3 P5 m7 M9") >>

\* String.prototype.replace of the first occurrence of word by rep; with
\* notAtEnd, of the first occurrence that does not end the string: /word(?!$)/
ReplaceFirst(s, word, rep, notAtEnd) ==
    LET at == {i \in 1..(Len(s) - Len(word) + 1) :
                  /\ SubSeq(s, i, i + Len(word) - 1) = word
                  /\ (notAtEnd => i + Len(word) - 1 < Len(s))}
    IN IF at = {} THEN s
       ELSE LET i == CHOOSE i \in at : \A j \in at : i <= j
            IN SubSeq(s, 1, i - 1) \o rep \o SubSeq(s, i + Len(word), Len(s))

ShortName(name) ==
    ReplaceFirst(
        ReplaceFirst(
            ReplaceFirst(
                ReplaceFirst(name, "Major", "Maj", TRUE),
                "Minor", "Min", TRUE),
            "Dominant", "Dom", FALSE),
        "Diminished", "Dim", FALSE)

\* intervals.match(/[PMm]/)
HasQualityLetter(s) == \E i \in 1..Len(s) : Char(s, i) \in {"P", "M", "m"}

\* String.prototype.split(' ')
RECURSIVE Split(_)
Split(s) ==
    LET spaces == {i \in 1..Len(s) : Char(s, i) = " "}
    IN IF spaces = {} THEN <<s>>
       ELSE LET i == CHOOSE i \in spaces : \A j \in spaces : i <= j
            IN <<SubSeq(s, 1, i - 1)>> \o Split(SubSeq(s, i + 1, Len(s)))

\* toneNames[c], else Number(c)
ToneNumber(c) == IF c = "t" THEN 10 ELSE IF c = "e" THEN 11 ELSE DigitValue(c)

\* names.map(Interval.fromString) in the state st; ok is FALSE when a name throws
RECURSIVE MapFromString(_, _)
MapFromString(st, names) ==
    IF Len(names) = 0
    THEN [ok |-> TRUE, intervals |-> <<>>, cache |-> st.cache, held |-> st.held]
    ELSE LET parsed == ParseIntervalName(names[1])
         IN IF ~parsed.ok
            THEN [ok |-> FALSE, intervals |-> <<>>,
                  cache |-> st.cache, held |-> st.held]
            ELSE Bind(Construct(st, parsed.semitones, parsed.accidentals),
                      LAMBDA c :
                        Bind(MapFromString([cache |-> c.cache, held |-> c.held],
                                           Tail(names)),
                             LAMBDA rest :
                               [ok |-> rest.ok,
                                intervals |-> <<c.result>> \o rest.intervals,
                                cache |-> rest.cache, held |-> rest.held]))

\* intervals.match(/./g).map(c => Interval.fromSemitones(toneNames[c] ?? Number(c)))
RECURSIVE MapFromTones(_, _)
MapFromTones(st, tones) ==
    IF Len(tones) = 0
    THEN [ok |-> TRUE, intervals |-> <<>>, cache |-> st.cache, held |-> st.held]
    ELSE Bind(fromSemitones(st, ToneNumber(Char(tones, 1)), 0),
              LAMBDA c :
                Bind(MapFromTones([cache |-> c.cache, held |-> c.held],
                                  SubSeq(tones, 2, Len(tones))),
                     LAMBDA rest :
                       [ok |-> TRUE,
                        intervals |-> <<c.result>> \o rest.intervals,
                        cache |-> rest.cache, held |-> rest.held]))

\* intervalInstances of one catalog entry
IntervalInstances(st, intervals) ==
    IF HasQualityLetter(intervals) THEN MapFromString(st, Split(intervals))
    ELSE MapFromTones(st, intervals)

\* The callback of chordClassArray's map on entry number i (object number i)
BuildEntry(st, i) ==
    LET entry == Catalog[i]
    IN Bind(IntervalInstances(st, entry.intervals),
            LAMBDA instances :
              [ok |-> instances.ok,
               chordClass |-> ChordQualityObject(
                                  Options(ShortName(entry.name), entry.name,
                                          entry.abbrs, instances.intervals,
                                          FALSE, Null),
                                  i),
               cache |-> instances.cache, held |-> instances.held])

\* chordClassArray: the map over the catalog from entry i on, which an Error
\* thrown by a callback ends; array holds the qualities built before it
RECURSIVE MapCatalogSkipping(_, _, _)
MapCatalogSkipping(st, i, array) ==
    IF i > Len(Catalog)
    THEN [ok |-> TRUE, array |-> array, cache |-> st.cache, held |-> st.held]
    ELSE Bind(BuildEntry(st, i),
              LAMBDA b :
                MapCatalogSkipping([cache |-> b.cache, held |-> b.held], i + 1,
                                   IF b.ok THEN Append(array, b.chordClass)
                                   ELSE array))

RECURSIVE MapCatalog(_, _, _)
MapCatalog(st, i, array) ==
    IF i > Len(Catalog)
    THEN [ok |-> TRUE, array |-> array, cache |-> st.cache, held |-> st.held]
    ELSE Bind(BuildEntry(st, i),
              LAMBDA b :
                IF ~b.ok
                THEN [ok |-> FALSE, array |-> array,
                      cache |-> b.cache, held |-> b.held]
                ELSE MapCatalog([cache |-> b.cache, held |-> b.held], i + 1,
                                Append(array, b.chordClass)))

\* chordClassArray.forEach(ChordClassAccessor.addChord)
RECURSIVE AddChords(_, _)
AddChords(map, array) ==
    IF Len(array) = 0 THEN map
    ELSE Bind(addChord(map, array[1]),
              LAMBDA next : AddChords(next, Tail(array)))

(***************************************************************************)
(* The inputs of the model.                                                *)
(***************************************************************************)
SampleSemitones == {5, 6, 7}
SampleAccidentals == {-1, 0, 1}

SampleNames ==
    {"TT", "Major 3rd", "A4", "d5", "augmented 4", "Diminished 5", "d 1",
     "A8", "Q9", "M9", "A9", "d0"}

\* the tones of a catalog entry written compactly, as numbers
CatalogTones(i) ==
    LET tones == Catalog[i].intervals
    IN [j \in 1..Len(tones) |-> ToneNumber(Char(tones, j))]

CompactEntries == {i \in 1..Len(Catalog) : ~HasQualityLetter(Catalog[i].intervals)}

\* semitone lists handed to fromIntervals, as Intervals and as raw numbers
SampleSemitoneLists ==
    {<<0, 4, 7>>, <<4, 0, 7>>, <<7, 0, 4>>, <<0, 3, 7>>, <<0, 4, 7, 10>>,
     <<0, 4, 7, 11>>, <<10, 0, 4, 7>>, <<0, 1, 2>>, <<>>, <<6>>, <<7>>}

NumberItems(list) == [i \in 1..Len(list) |-> [number |-> list[i]]]

\* the natural Interval of n semitones a caller holds (Intervals.P1, ...)
HeldNatural(n) ==
    CHOOSE x \in held : x.naturalSemitones = n /\ x.accidentals = 0

IntervalItems(list) == [i \in 1..Len(list) |-> HeldNatural(list[i])]

AllHeld(list) ==
    \A i \in 1..Len(list) :
        \E x \in held : x.naturalSemitones = list[i] /\ x.accidentals = 0

\* every key the catalog could register, and some it could not
CatalogKeys ==
    UNION {{Catalog[i].name, ShortName(Catalog[i].name)}
               \cup {Catalog[i].abbrs[j] : j \in 1..Len(Catalog[i].abbrs)}
           : i \in 1..Len(Catalog)}
        \cup {Join(CatalogTones(i)) : i \in CompactEntries}

\* the names handed to ChordQuality.fromString
SampleKeys ==
    {"Major", "Minor", "Maj 7th", "Major 7th", "", "M", "7", "M9", "Maj 9th",
     "0,4,7", "0,3,7", "0,4,7,10", "0,10,4,7", "Maj7"}

\* options a caller passes to the constructor
SampleOptions ==
    {Options(name, name, <<>>, IntervalItems(<<0, 4, 7>>), has, inv) :
        name \in {"Major"}, has \in BOOLEAN, inv \in {Null, 1}} \ {Options("Major", "Major", <<>>, IntervalItems(<<0, 4, 7>>), FALSE, 1)}

(***************************************************************************)
(* The state machine.                                                      *)
(***************************************************************************)
State == [cache |-> bySemitone, held |-> held]

NoCall == [op |-> "none", arg |-> <<>>, res |-> [ok |-> FALSE, error |-> "none"]]

Init ==
    /\ bySemitone = IntervalsLoaded.cache
    /\ held = IntervalsLoaded.held
    /\ loaded = "no"
    /\ chordMap = EmptyMap
    /\ qualities = {}
    /\ pitchClassInstances = PitchClassesLoaded
    /\ ret = NoCall

\* the Intervals a caller passes as receivers and operands
Operands == {x \in held : x.naturalSemitones \in SampleSemitones}

\* a call of Interval that constructs: c is what Construct returned; ret
\* keeps the operation and its result, not its arguments
ReturnInterval(op, arg, c) ==
    /\ Cardinality(c.held) <= Len(ShortIntervalNames) + MaxNew
    /\ bySemitone' = c.cache
    /\ held' = c.held
    /\ ret' = [op |-> op, arg |-> <<>>,
               res |-> [ok |-> TRUE, value |-> c.result]]
    /\ UNCHANGED <<pitchClassInstances, loaded, chordMap, qualities>>

FromSemitones(n, a) ==
    ReturnInterval("fromSemitones", <<n, a>>, fromSemitones(State, n, a))

NewInterval(n, a) ==
    ReturnInterval("new", <<n, a>>, Construct(State, n, a))

AsInterval(n) ==
    ReturnInterval("asInterval", <<n>>, asIntervalOfNumber(State, n))

\* asInterval(x) for an Interval x returns x
AsIntervalOfInterval(x) ==
    /\ ret' = [op |-> "asInterval", arg |-> <<>>,
               res |-> [ok |-> TRUE, value |-> x]]
    /\ UNCHANGED <<pitchClassInstances, bySemitone, held, loaded, chordMap, qualities>>

IntervalFromString(name) ==
    LET parsed == ParseIntervalName(name)
    IN IF parsed.ok
       THEN ReturnInterval("fromString", <<name>>,
                           Construct(State, parsed.semitones, parsed.accidentals))
       ELSE /\ ret' = [op |-> "fromString", arg |-> <<>>,
                       res |-> [ok |-> FALSE, error |-> parsed.error]]
            /\ UNCHANGED <<pitchClassInstances, bySemitone, held, loaded, chordMap, qualities>>

Inverse(x) == ReturnInterval("inverse", <<x>>, inverse(State, x))
Augment(x) == ReturnInterval("augment", <<x>>, augment(State, x))
Diminish(x) == ReturnInterval("diminish", <<x>>, diminish(State, x))
Natural(x) == ReturnInterval("natural", <<x>>, natural(State, x))
Add(x, other) == ReturnInterval("add", <<x, other>>, add(State, x, other))

\* the operands given to Interval.between
SampleBetweenNumbers == {-5, 0, 7, 12}
SamplePitchClassNumbers == {0, 4, 11}
SampleMidiNumbers == {52, 64}

BetweenOperands ==
    {NumberOperand(n) : n \in SampleBetweenNumbers}
        \cup {pitchClassInstances[n] :
                 n \in SamplePitchClassNumbers \cap DOMAIN pitchClassInstances}
        \cup {PitchOperand(n) : n \in SampleMidiNumbers}

Between(a, b) ==
    LET r == between(State, a, b)
    IN IF r.ok THEN ReturnInterval("between", <<a, b>>, r.made)
       ELSE /\ ret' = [op |-> "between", arg |-> <<>>,
                       res |-> [ok |-> FALSE, error |-> r.error]]
            /\ UNCHANGED <<pitchClassInstances, bySemitone, held, loaded, chordMap, qualities>>

NextInterval ==
    \/ \E n \in SampleSemitones, a \in SampleAccidentals : FromSemitones(n, a)
    \/ \E n \in SampleSemitones, a \in SampleAccidentals : NewInterval(n, a)
    \/ \E n \in SampleSemitones : AsInterval(n)
    \/ \E x \in Operands : AsIntervalOfInterval(x)
    \/ \E name \in SampleNames : IntervalFromString(name)
    \/ \E x \in held : Inverse(x)
    \/ \E x \in Operands : Augment(x)
    \/ \E x \in Operands : Diminish(x)
    \/ \E x \in held : Natural(x)
    \/ \E x \in Operands, other \in Operands : Add(x, other)
    \/ \E a \in BetweenOperands, b \in BetweenOperands : Between(a, b)

\* ChordQuality.ts is evaluated: the class first, then chordClassArray (the
\* map over the catalog), then the forEach that registers.  An Error thrown
\* inside the map ends the evaluation there, before anything is registered;
\* the class and its (then empty) chordMap exist all the same.
LoadChordQuality ==
    /\ loaded = "no"
    /\ LET r == MapCatalog(State, 1, <<>>)
       IN /\ bySemitone' = r.cache
          /\ held' = r.held
          /\ loaded' = IF r.ok THEN "ready" ELSE "failed"
          /\ chordMap' = IF r.ok THEN AddChords(chordMap, r.array) ELSE chordMap
    /\ ret' = NoCall
    /\ UNCHANGED <<pitchClassInstances, qualities>>

FreshOid == Len(Catalog) + Cardinality(qualities) + 1

Registered == {chordMap[k] : k \in DOMAIN chordMap}

FromString(name) ==
    /\ loaded # "no"
    /\ ret' = [op |-> "ChordQuality.fromString", arg |-> <<name>>,
               res |-> fromString(chordMap, name)]
    /\ UNCHANGED <<pitchClassInstances, bySemitone, held, loaded, chordMap, qualities>>

FromIntervals(items) ==
    /\ loaded # "no"
    /\ LET conv == MapAsInterval(State, items)
           res == fromIntervals(chordMap, conv.intervals, FreshOid)
           made == IF res.ok /\ res.value \notin Registered
                   THEN {res.value} ELSE {}
       IN /\ Cardinality(conv.held) <= Len(ShortIntervalNames) + MaxNew
          /\ Cardinality(qualities \cup made) <= MaxQualities
          /\ bySemitone' = conv.cache
          /\ held' = conv.held
          /\ qualities' = qualities \cup made
          /\ ret' = [op |-> "fromIntervals", arg |-> <<items>>, res |-> res]
    /\ UNCHANGED <<pitchClassInstances, loaded, chordMap>>

NewChordQuality(options) ==
    /\ loaded # "no"
    /\ Cardinality(qualities) < MaxQualities
    /\ LET q == ChordQualityObject(options, FreshOid)
       IN /\ qualities' = qualities \cup {q}
          /\ ret' = [op |-> "new ChordQuality", arg |-> <<options>>,
                     res |-> [ok |-> TRUE, value |-> q]]
    /\ UNCHANGED <<pitchClassInstances, bySemitone, held, loaded, chordMap>>

Invert(q, inversion) ==
    /\ loaded # "no"
    /\ Cardinality(qualities) < MaxQualities
    /\ LET r == invert(q, inversion, FreshOid)
       IN /\ qualities' = qualities \cup {r}
          /\ ret' = [op |-> "invert", arg |-> <<q, inversion>>,
                     res |-> [ok |-> TRUE, value |-> r]]
    /\ UNCHANGED <<pitchClassInstances, bySemitone, held, loaded, chordMap>>

NextChord ==
    \/ LoadChordQuality
    \/ \E name \in SampleKeys : FromString(name)
    \/ \E list \in SampleSemitoneLists :
          AllHeld(list) /\ FromIntervals(IntervalItems(list))
    \/ \E list \in SampleSemitoneLists : FromIntervals(NumberItems(list))
    \/ \E options \in SampleOptions : NewChordQuality(options)
    \/ \E q \in qualities \cup Registered, inversion \in {1, 2} :
          Invert(q, inversion)

\* the numbers given to PitchClass.fromSemitones, the roots given to at
SamplePitchClassSemitones == {-8, 4, 16}
SampleRoots == {pitchClassInstances[n] :
                   n \in SamplePitchClassNumbers \cap DOMAIN pitchClassInstances}

PitchClassFromSemitones(n) ==
    LET r == pitchClassFromSemitones(pitchClassInstances, n)
    IN /\ pitchClassInstances' = r.instances
       /\ ret' = [op |-> "PitchClass.fromSemitones", arg |-> <<n>>,
                  res |-> [ok |-> TRUE, value |-> r.result]]
       /\ UNCHANGED <<bySemitone, held, loaded, chordMap, qualities>>

PitchClassAdd(pc, x) ==
    LET r == pitchClassAdd(pitchClassInstances, pc, x)
    IN /\ pitchClassInstances' = r.instances
       /\ ret' = [op |-> "PitchClass.add", arg |-> <<pc, x>>,
                  res |-> [ok |-> TRUE, value |-> r.result]]
       /\ UNCHANGED <<bySemitone, held, loaded, chordMap, qualities>>

\* q.at(root) for a quality the caller holds
At(q, root) ==
    /\ ret' = [op |-> "at", arg |-> <<q, root>>,
               res |-> [ok |-> TRUE, value |-> chordAt(q, root)]]
    /\ UNCHANGED <<pitchClassInstances, bySemitone, held, loaded, chordMap,
                   qualities>>

\* chord.notes of the chord that at returned last
Notes ==
    /\ ret.op = "at"
    /\ LET r == chordNotes(pitchClassInstances, ret.res.value)
       IN /\ pitchClassInstances' = r.instances
          /\ ret' = [op |-> "notes", arg |-> <<ret.res.value>>,
                     res |-> [ok |-> TRUE, value |-> r.notes]]
    /\ UNCHANGED <<bySemitone, held, loaded, chordMap, qualities>>

NextNotes ==
    \/ \E n \in SamplePitchClassSemitones : PitchClassFromSemitones(n)
    \/ \E pc \in SampleRoots, x \in Operands : PitchClassAdd(pc, x)
    \/ \E q \in qualities \cup Registered, root \in SampleRoots : At(q, root)
    \/ Notes

Next == NextInterval \/ NextChord \/ NextNotes

Spec == Init /\ [][Next]_vars

\* Interval.ts on its own
SpecInterval == Init /\ [][NextInterval]_vars

\* ChordQuality.ts loaded and called
SpecChord == Init /\ [][NextChord]_vars

\* qualities anchored at a root
SpecNotes == Init /\ [][NextChord \/ NextNotes]_vars

(***************************************************************************)
(* What the statements below speak of.                                     *)
(***************************************************************************)
\* the quality the catalog's entry i stands for (ok: its intervals expand)
EntryQuality(i) == BuildEntry(State, i)

\* numbers in ascending numeric order
RECURSIVE InsertAscending(_, _)
InsertAscending(sorted, n) ==
    IF Len(sorted) = 0 THEN <<n>>
    ELSE IF n < sorted[1] THEN <<n>> \o sorted
    ELSE <<sorted[1]>> \o InsertAscending(Tail(sorted), n)

RECURSIVE Ascending(_)
Ascending(numbers) ==
    IF Len(numbers) = 0 THEN <<>>
    ELSE InsertAscending(Ascending(SubSeq(numbers, 1, Len(numbers) - 1)),
                         numbers[Len(numbers)])

\* the canonical key of a list of semitone values: ascending, comma-joined
CanonicalKey(semitones) == Join(Ascending(semitones))

\* fromIntervals on items in the current state
Recognise(items) ==
    fromIntervals(chordMap, MapAsInterval(State, items).intervals, FreshOid)

NotFound(res) == ~res.ok /\ res.error = "Couldn't find chord class"

AbbrsOf(q) == {q.abbrs[j] : j \in 1..Len(q.abbrs)}

(***************************************************************************)
(* C1.  For every catalog entry q, fromIntervals(q.intervals) returns a    *)
(* quality named q.name.                                                   *)
(***************************************************************************)
C1_RoundTripByIntervals ==
    loaded # "no" =>
        \A i \in 1..Len(Catalog) :
            LET q == EntryQuality(i)
                r == fromIntervals(chordMap, q.chordClass.intervals, FreshOid)
            IN q.ok /\ r.ok /\ r.value.name = q.chordClass.name

(***************************************************************************)
(* C2.  Two Intervals handed out are the identical instance if and only if *)
(* they have the same (naturalSemitones, accidentals); the cache holds     *)
(* exactly the handed-out instance under its own pair; every result is one *)
(* of them.                                                                *)
(***************************************************************************)
C2_Interning ==
    /\ \A x \in held, y \in held : (x = y) <=> SamePair(x, y)
    /\ \A x \in held :
          /\ x.naturalSemitones \in DOMAIN bySemitone
          /\ x.accidentals \in DOMAIN bySemitone[x.naturalSemitones]
          /\ bySemitone[x.naturalSemitones][x.accidentals] = x
    /\ \A n \in DOMAIN bySemitone : \A a \in DOMAIN bySemitone[n] :
          /\ bySemitone[n][a] \in held
          /\ bySemitone[n][a].naturalSemitones = n
          /\ bySemitone[n][a].accidentals = a
    /\ (ret.op \in {"fromSemitones", "new", "asInterval", "fromString",
                    "inverse", "augment", "diminish", "natural", "add"}
        /\ ret.res.ok) => ret.res.value \in held

\* augmented P4, diminished P5 and TT are held, three instances of six
\* semitones each, and a later request for (6, 0) returned the TT made at load
C2_Witness ==
    /\ \E x \in held, y \in held, z \in held :
          /\ x.naturalSemitones = 5 /\ x.accidentals = 1
          /\ y.naturalSemitones = 7 /\ y.accidentals = -1
          /\ z.naturalSemitones = 6 /\ z.accidentals = 0
          /\ Semitones(x) = 6 /\ Semitones(y) = 6 /\ Semitones(z) = 6
          /\ x # y /\ y # z /\ x # z
          /\ ret.res.ok /\ ret.res.value = z
    /\ ret.op = "fromSemitones"

(***************************************************************************)
(* C3.  fromIntervals(items), when the canonical key of items is that of a *)
(* registered quality q, returns a quality named q.name with inversion 1   *)
(* when the first item's number is 3, with inversion 2 when it is 5, and q *)
(* itself otherwise; [P1,M3,P5] gives Major/null, [M3,P1,P5] Major/1 and   *)
(* [P5,P1,M3] Major/2.                                                     *)
(***************************************************************************)
C3_AsStated(items, name) ==
    LET intervals == MapAsInterval(State, items).intervals
        number == Number(intervals[1])
        r == Recognise(items)
    IN /\ r.ok
       /\ r.value.name = name
       /\ r.value.inversion =
              IF number.ok /\ number.value = 3 THEN 1
              ELSE IF number.ok /\ number.value = 5 THEN 2
              ELSE Null

C3_InversionRecognised ==
    loaded # "no" =>
        /\ \A list \in SampleSemitoneLists :
              (Len(list) > 0 /\ CanonicalKey(list) \in DOMAIN chordMap) =>
                  LET q == chordMap[CanonicalKey(list)]
                  IN /\ C3_AsStated(NumberItems(list), q.name)
                     /\ Recognise(NumberItems(list)).value.inversion = Null
                            => Recognise(NumberItems(list)).value = q
        /\ C3_AsStated(IntervalItems(<<0, 4, 7>>), "Major")
        /\ Recognise(IntervalItems(<<0, 4, 7>>)).value.inversion = Null
        /\ C3_AsStated(IntervalItems(<<4, 0, 7>>), "Major")
        /\ Recognise(IntervalItems(<<4, 0, 7>>)).value.inversion = 1
        /\ C3_AsStated(IntervalItems(<<7, 0, 4>>), "Major")
        /\ Recognise(IntervalItems(<<7, 0, 4>>)).value.inversion = 2

(***************************************************************************)
(* C4.  For every catalog quality q and every s in q.abbrs, the empty      *)
(* abbreviation of Major included, fromString(s) returns q.                *)
(***************************************************************************)
C4_EveryAbbreviationFound ==
    loaded # "no" =>
        \A i \in 1..Len(Catalog) : \A s \in AbbrsOf(Catalog[i]) :
            LET r == fromString(chordMap, s)
            IN /\ r.ok
               /\ r.value.oid = i
               /\ r.value.fullName = Catalog[i].name

(***************************************************************************)
(* C5.  For every catalog quality q, fromString(q.name) and                *)
(* fromString(q.fullName) return q itself.                                 *)
(***************************************************************************)
C5_RoundTripByName ==
    loaded # "no" =>
        \A i \in 1..Len(Catalog) :
            \A s \in {ShortName(Catalog[i].name), Catalog[i].name} :
                LET r == fromString(chordMap, s)
                IN /\ r.ok
                   /\ r.value.oid = i
                   /\ r.value.fullName = Catalog[i].name

(***************************************************************************)
(* C6.  Startup registers the whole catalog: fromString('M9').intervals is *)
(* [P1, M3, P5, M7, M9], fromString('m9').intervals is [P1, m3, P5, m7,    *)
(* M9], and Interval.fromString('M9') returns an Interval.                 *)
(***************************************************************************)
C6_StartupCompletes ==
    loaded # "no" =>
        /\ loaded = "ready"
        /\ \A i \in 1..Len(Catalog) : EntryQuality(i).ok
        /\ ParseIntervalName("M9").ok
        /\ fromString(chordMap, "M9").ok
        /\ SemitonesOf(fromString(chordMap, "M9").value.intervals)
               = <<0, 4, 7, 11, 14>>
        /\ fromString(chordMap, "m9").ok
        /\ SemitonesOf(fromString(chordMap, "m9").value.intervals)
               = <<0, 3, 7, 10, 14>>

C9_InvertOfInvertedFails ==
    (ret.op = "invert" /\ ret.arg[1].inversion # Null) => ~ret.res.ok

(***************************************************************************)
(* C10.  For a root-position quality q and n in {1, 2}, q.invert(n)        *)
(* returns a new quality, distinct from q, with q's name, fullName, abbrs  *)
(* and intervals and with inversion n; no call changes the registry, and   *)
(* every registered quality has inversion null.                            *)
(***************************************************************************)
C10_InvertOfRootPosition ==
    /\ (ret.op = "invert" /\ ret.arg[1].inversion = Null) =>
          LET q == ret.arg[1]
              r == ret.res
          IN /\ r.ok
             /\ r.value # q
             /\ r.value.name = q.name
             /\ r.value.fullName = q.fullName
             /\ r.value.abbrs = q.abbrs
             /\ r.value.intervals = q.intervals
             /\ r.value.inversion = ret.arg[2]
             /\ q \in qualities \cup Registered
    /\ \A q \in Registered : q.inversion = Null
    /\ loaded # "no" =>
          chordMap = (IF MapCatalog(State, 1, <<>>).ok
                      THEN AddChords(EmptyMap, MapCatalog(State, 1, <<>>).array)
                      ELSE EmptyMap)

(***************************************************************************)
(* C11.  Inverse is an involution: for every Interval x, x.inverse has the *)
(* natural part 12 - naturalSemitones and the accidentals negated, and     *)
(* x.inverse.inverse has x's (naturalSemitones, accidentals) and is the    *)
(* identical instance x; M3.inverse is m6, P4.inverse is P5 and TT.inverse *)
(* is TT.                                                                  *)
(***************************************************************************)
\* the state a constructing call leaves
After(c) == [cache |-> c.cache, held |-> c.held]

\* x.inverse.inverse
InverseTwice(x) ==
    Bind(inverse(State, x), LAMBDA once : inverse(After(once), once.result))

C11_InverseInvolution ==
    /\ \A x \in held :
          /\ inverse(State, x).result.naturalSemitones = 12 - x.naturalSemitones
          /\ inverse(State, x).result.accidentals = -x.accidentals
          /\ SamePair(InverseTwice(x).result, x)
          /\ InverseTwice(x).result = x
    /\ inverse(State, HeldNatural(4)).result = HeldNatural(8)
    /\ inverse(State, HeldNatural(5)).result = HeldNatural(7)
    /\ inverse(State, HeldNatural(6)).result = HeldNatural(6)

\* the inverse of an augmented P4 was taken and is the diminished P5
C11_Witness ==
    /\ ret.op = "inverse"
    /\ ret.res.value.naturalSemitones = 7
    /\ ret.res.value.accidentals = -1
    /\ \E x \in held :
          /\ x.naturalSemitones = 5 /\ x.accidentals = 1
          /\ inverse(State, x).result = ret.res.value
          /\ inverse(State, ret.res.value).result = x

(***************************************************************************)
(* C13.  Interval.fromString on 'A n' or 'augmented n' ('d n' or           *)
(* 'diminished n'), n in 1..8, returns the interned interval of diatonic   *)
(* number n with accidentals +1 (-1) on the major-or-perfect               *)
(* (minor-or-perfect) natural interval of size n: 'A4' is (5, +1) and 'd5' *)
(* is (7, -1).  A name of no accepted form ('Q9'), or with n outside 1..8, *)
(* fails with the not-found Error.                                         *)
(***************************************************************************)
AccidentalPrefixes ==
    {"A", "d", "augmented", "diminished", "Augmented", "DIMINISHED"}

Separators == {"", " ", "  "}

SampleNumbers == 0..12

\* names of no accepted form
UnacceptedNames ==
    {"Q9", "M9", "", "A", "d", "a4", "D5", "A4th", "A 4 ", " A4", "augment 4",
     "AA4", "dd5", "A-4"}

\* what fromString parses from prefix, separator and number
AccidentalName(prefix, sep, n) == prefix \o sep \o NumberToString(n)

C13_AccidentalName(prefix, sep, n) ==
    LET p == ParseIntervalName(AccidentalName(prefix, sep, n))
        up == ToLowerCase(prefix) \in {"a", "augmented"}
        digit == NumberToString(n)
    IN IF n \in 1..8
       THEN /\ p.ok
            /\ p.accidentals = (IF up THEN 1 ELSE -1)
            /\ p.semitones \in 0..12
            /\ Number(IntervalObject(p.semitones, 0, 0)) = [ok |-> TRUE, value |-> n]
            /\ ShortIntervalNames[p.semitones + 1]
                   \in {(IF up THEN "M" ELSE "m") \o digit, "P" \o digit}
       ELSE ~p.ok /\ p.error = "No interval named"

\* the parse of every sample name is as stated
C13_Parsed ==
    /\ \A prefix \in AccidentalPrefixes, sep \in Separators, n \in SampleNumbers :
          C13_AccidentalName(prefix, sep, n)
    /\ ParseIntervalName("A4") = [ok |-> TRUE, semitones |-> 5, accidentals |-> 1]
    /\ ParseIntervalName("d5") = [ok |-> TRUE, semitones |-> 7, accidentals |-> -1]
    /\ \A name \in UnacceptedNames :
          ParseIntervalName(name) = [ok |-> FALSE, error |-> "No interval named"]

\* the (naturalSemitones, accidentals) that the accepted sample names parse to
ParsedAccidentals ==
    {ParseIntervalName(AccidentalName(prefix, sep, n)) :
        prefix \in AccidentalPrefixes, sep \in Separators, n \in 1..8}

C13_FromStringAccidentals ==
    /\ C13_Parsed
    /\ \A p \in ParsedAccidentals :
          p.ok /\ LET c == Construct(State, p.semitones, p.accidentals)
                  IN /\ c.result.naturalSemitones = p.semitones
                     /\ c.result.accidentals = p.accidentals
                     /\ c.cache[p.semitones][p.accidentals] = c.result
                     /\ \A x \in held : SamePair(x, c.result) => x = c.result
    /\ ret.op = "fromString" =>
          IF ret.res.ok THEN ret.res.value \in held
          ELSE ret.res.error = "No interval named"

\* fromString('A4') or fromString('augmented 4') returned the augmented P4
C13_Witness ==
    /\ ret.op = "fromString"
    /\ ret.res.ok
    /\ ret.res.value.naturalSemitones = 5
    /\ ret.res.value.accidentals = 1
    /\ ret.res.value \in held

(***************************************************************************)
(* C15.  Every Interval reached from the thirteen natural intervals by     *)
(* inverse, augment, diminish, natural and add has naturalSemitones in     *)
(* 0..12, so that its number is defined by the name table; add(other)      *)
(* returns the natural interval whose naturalSemitones is the sum of the   *)
(* operands' natural parts, with accidentals 0.                            *)
(***************************************************************************)
C15_WithinOneOctave ==
    /\ \A x \in held :
          /\ x.naturalSemitones \in 0..12
          /\ Number(x).ok
    /\ \A x \in Operands, other \in Operands :
          /\ add(State, x, other).result.naturalSemitones
                 = x.naturalSemitones + other.naturalSemitones
          /\ add(State, x, other).result.accidentals = 0

(***************************************************************************)
(* C16.  Inversion complements semitones and diatonic number: for every    *)
(* Interval x with naturalSemitones in 0..12, x.semitones +                *)
(* x.inverse.semitones = 12; x.number is null exactly when                 *)
(* x.inverse.number is null, which is exactly when x is built on the       *)
(* tritone; otherwise x.number + x.inverse.number = 9.                     *)
(***************************************************************************)
C16_InverseComplements ==
    \A x \in {y \in held : y.naturalSemitones \in 0..12} :
        LET inv == inverse(State, x).result
        IN /\ Semitones(x) + Semitones(inv) = 12
           /\ Number(x).ok /\ Number(inv).ok
           /\ (Number(x).value = Null) <=> (Number(inv).value = Null)
           /\ (Number(x).value = Null) <=> (x.naturalSemitones = 6)
           /\ Number(x).value # Null =>
                  Number(x).value + Number(inv).value = 9

\* the inverse of an augmented P5 (8 semitones, number 5) was taken: it is the
\* diminished P4 (4 semitones, number 4)
C16_Witness ==
    /\ ret.op = "inverse"
    /\ ret.res.value.naturalSemitones = 5
    /\ ret.res.value.accidentals = -1
    /\ Semitones(ret.res.value) = 4
    /\ Number(ret.res.value).value = 4
    /\ \E x \in held : x.naturalSemitones = 7 /\ x.accidentals = 1

(***************************************************************************)
(* C12.  Interval.between(a, b) of two numbers or of two pitch classes     *)
(* returns the natural interval (accidentals 0) of s semitones, with       *)
(* 0 <= s < 12 and s = b - a up to a multiple of 12, also when b - a is    *)
(* negative or 12 or more; for operands of different kinds it fails with   *)
(* the incompatible-operands Error and returns no interval.                *)
(***************************************************************************)
\* the position of an operand: a number's value, a pitch class's semitones
PositionOf(a) == IF a.kind = "number" THEN a.value ELSE a.semitones

C12_BetweenNormalised ==
    /\ \A a \in BetweenOperands, b \in BetweenOperands :
          LET r == between(State, a, b)
          IN IF a.kind # b.kind
             THEN ~r.ok /\ r.error = "Can't take the interval between"
             ELSE a.kind \in {"number", "PitchClass"} =>
                    /\ r.ok
                    /\ r.made.result.accidentals = 0
                    /\ Semitones(r.made.result) \in 0..11
                    /\ \E k \in -3..3 :
                          Semitones(r.made.result)
                              = PositionOf(b) - PositionOf(a) + 12 * k
                    /\ r.made.result = HeldNatural(Semitones(r.made.result))
    /\ ret.op = "between" =>
          IF ret.res.ok
          THEN /\ ret.res.value.accidentals = 0
               /\ ret.res.value.naturalSemitones \in 0..11
               /\ ret.res.value \in held
          ELSE ret.res.error = "Can't take the interval between"

\* between(E, C) of pitch classes was called: -4 became the m6 of 8 semitones
C12_Witness ==
    /\ ret.op = "between"
    /\ ret.res.ok
    /\ ret.res.value.naturalSemitones = 8
    /\ ret.res.value.accidentals = 0
    /\ between(State, pitchClassInstances[4], pitchClassInstances[0]).made.result
           = ret.res.value

(***************************************************************************)
(* C14.  The notes of a quality q anchored at a pitch-class root r are     *)
(* q's intervals, each added to r, in q's interval order and not rotated;  *)
(* an interval i added to a pitch class gives the interned pitch class of  *)
(* number (r.semitones + i.semitones) mod 12, the instance that            *)
(* PitchClass.fromSemitones returns for that number.  Major at E gives     *)
(* [E, G#, B].                                                             *)
(***************************************************************************)
\* n mod 12: the number in 0..11 that differs from n by a multiple of 12
ModTwelve(n) == CHOOSE s \in 0..11 : \E k \in -4..4 : n = s + 12 * k

C14_NotesAtRoot ==
    /\ ret.op = "notes" =>
          LET chord == ret.arg[1]
              intervals == chord.quality.intervals
              notes == ret.res.value
          IN /\ Len(notes) = Len(intervals)
             /\ \A i \in 1..Len(intervals) :
                   LET n == ModTwelve(chord.root.semitones + Semitones(intervals[i]))
                   IN /\ notes[i].semitones = n
                      /\ notes[i] = pitchClassInstances[n]
                      /\ notes[i] = pitchClassFromSemitones(
                                        pitchClassInstances, n).result
             /\ (chord.quality.name = "Major" /\ chord.root.semitones = 4) =>
                   [i \in 1..Len(notes) |-> notes[i].semitones] = <<4, 8, 11>>
    /\ ret.op = "PitchClass.add" =>
          ret.res.value =
              pitchClassInstances[ModTwelve(ret.arg[1].semitones
                                                + Semitones(ret.arg[2]))]
    /\ ret.op = "PitchClass.fromSemitones" =>
          ret.res.value = pitchClassInstances[ModTwelve(ret.arg[1])]
    /\ \A n \in DOMAIN pitchClassInstances :
          pitchClassInstances[n].semitones = n

\* the notes of an inverted Major at E were taken: E, G#, B, not rotated
C14_Witness ==
    /\ ret.op = "notes"
    /\ ret.arg[1].quality.name = "Major"
    /\ ret.arg[1].quality.inversion = 1
    /\ ret.arg[1].root = pitchClassInstances[4]
    /\ ret.res.value = <<pitchClassInstances[4], pitchClassInstances[8],
                         pitchClassInstances[11]>>

====
